---- MODULE Spec2Model ----
(***************************************************************************)
(* create-igv-session: the track classification and ordering engine of     *)
(* src/create_igv_session/__init__.py.                                      *)
(*                                                                         *)
(* Strings are sequences of tokens.  A token stands for a fixed run of      *)
(* characters; the tokens are prefix-free and no token occurs inside a      *)
(* concatenation of others, so substring tests, suffix tests, replace(),    *)
(* regular expressions built from whole tokens and lexicographic order on   *)
(* the token sequences agree with Python's on the character strings they    *)
(* spell.  Every operator below was compared with the Python function it    *)
(* models on randomly drawn arguments.                                      *)
(***************************************************************************)
EXTENDS Integers, Sequences, FiniteSets, TLC

VARIABLES
    pc,                   \* position in main(): the next stage to run
    err,                  \* how the run ended abnormally, "none" while it has not
    paths,                \* main: `paths`, the discovered file paths
    include_patterns,     \* main: `include_patterns`
    exclude_patterns,     \* main: `exclude_patterns`
    rna_track_patterns,   \* main: `rna_track_patterns`
    overlay_rna_strands,  \* main: `overlay_rna_strands`
    sort_patterns,        \* main: `sort_patterns`
    styles,               \* main: `styles`, reduced to each style's tracks_features
    template_has_tracks,  \* whether the template read by add_to_template has "tracks"
    trackpaths,           \* main: `trackpaths`
    tracks,               \* main: `tracks`, the output records
    style_i,              \* main: how many of `styles` the loop over them has applied
    filetypes_allowed,    \* main: `filetypes_allowed` as the styles give it
    json_session,         \* main: `json_session`: <<>> or <<the template's tracks>>
    prev,                 \* the argument the last stage was called with
    output                \* what was written to args.output: <<>> or <<json_session>>

vars == <<pc, err, paths, include_patterns, exclude_patterns, filetypes_allowed,
          rna_track_patterns, json_session,
          overlay_rna_strands, sort_patterns, styles, template_has_tracks,
          trackpaths, tracks, style_i, prev, output>>

-----------------------------------------------------------------------------
(* Strings *)

\* The tokens in increasing order of the character strings they spell
\* ('.' < '/' < 'f' < 'r' < 'x' < 'z'; ".be" < ".bi" < ".t").
TokenOrder == <<".bed", ".bigWig", ".tbi", "/", "forward", "reverse", "x", "z">>

Rank(t) == CHOOSE i \in 1..Len(TokenOrder) : TokenOrder[i] = t

\* Python's str < str.
RECURSIVE StrLess(_, _)
StrLess(a, b) ==
    IF a = <<>> THEN b # <<>>
    ELSE IF b = <<>> THEN FALSE
    ELSE IF Head(a) = Head(b) THEN StrLess(Tail(a), Tail(b))
    ELSE Rank(Head(a)) < Rank(Head(b))

\* str.endswith for a suffix that is one token
EndsWith(s, t) == s # <<>> /\ s[Len(s)] = t

\* `t in s` for a substring that is one token
Contains(s, t) == \E i \in 1..Len(s) : s[i] = t

\* s.replace(t, "") for a substring that is one token
RECURSIVE Remove(_, _)
Remove(s, t) ==
    IF s = <<>> THEN <<>>
    ELSE IF Head(s) = t THEN Remove(Tail(s), t)
    ELSE <<Head(s)>> \o Remove(Tail(s), t)

\* Path.name: what follows the last "/"
RECURSIVE PathName(_)
PathName(p) ==
    IF Contains(p, "/") THEN PathName(Tail(p)) ELSE p

\* Path.stem: the name up to its last '.', unless that '.' starts the name.
\* Every '.' of a name is the first character of an extension token.
IsExt(t) == t \in {".bed", ".bigWig", ".tbi"}

PathStem(p) ==
    LET name == PathName(p)
        dots == {i \in 1..Len(name) : IsExt(name[i])}
    IN  IF dots = {} THEN name
        ELSE LET i == CHOOSE j \in dots : \A k \in dots : k <= j
             IN  IF i = 1 THEN name ELSE SubSeq(name, 1, i - 1)

-----------------------------------------------------------------------------
(* Regular expressions: re.match(pattern, string) *)

\* A pattern is a sequence of elements:
\*   cls   one token of the set ts            (?:x|z)
\*   star  any run of tokens, greedy          .*
\*   eos   end of the string                  $
\*   open  start of capture group g, which ends at element `end`;
\*         opt: the group is followed by '?'  ( ... )  or  ( ... )?
\*   close end of capture group g
Cls(ts)          == [k |-> "cls",   ts |-> ts, g |-> 0, end |-> 0, opt |-> FALSE]
Lit(t)           == Cls({t})
Star             == [k |-> "star",  ts |-> {}, g |-> 0, end |-> 0, opt |-> FALSE]
Eos              == [k |-> "eos",   ts |-> {}, g |-> 0, end |-> 0, opt |-> FALSE]
Open(g, e, o)    == [k |-> "open",  ts |-> {}, g |-> g, end |-> e, opt |-> o]
Close(g)         == [k |-> "close", ts |-> {}, g |-> g, end |-> 0, opt |-> FALSE]

\* re.Pattern.groups: the number of capture groups
NGroups(pat) == Cardinality({i \in 1..Len(pat) : pat[i].k = "open"})

\* An optional value: <<>> is None, <<v>> is v.
None == <<>>
Some(v) == <<v>>

NoMatch == [matched |-> FALSE, groups |-> <<>>]

\* The backtracking matcher: elements from i on against s from position pos on
\* (pos counts the tokens consumed); st[g] is where group g opened, caps[g]
\* what it captured (None while it has not taken part).  The alternatives are
\* tried in the regex engine's order and the first match is returned.
RECURSIVE MatchFrom(_, _, _, _, _, _)
MatchFrom(pat, s, i, pos, st, caps) ==
    IF i > Len(pat) THEN [matched |-> TRUE, groups |-> caps]
    ELSE LET e == pat[i] IN
    CASE e.k = "cls" ->
            IF pos < Len(s) /\ s[pos + 1] \in e.ts
            THEN MatchFrom(pat, s, i + 1, pos + 1, st, caps)
            ELSE NoMatch
      [] e.k = "eos" ->
            IF pos = Len(s) THEN MatchFrom(pat, s, i + 1, pos, st, caps) ELSE NoMatch
      [] e.k = "star" ->
            LET ok == {n \in pos..Len(s) : MatchFrom(pat, s, i + 1, n, st, caps).matched}
            IN  IF ok = {} THEN NoMatch
                ELSE MatchFrom(pat, s, i + 1, CHOOSE n \in ok : \A m \in ok : m <= n, st, caps)
      [] e.k = "open" ->
            LET taken == MatchFrom(pat, s, i + 1, pos, [st EXCEPT ![e.g] = pos], caps)
            IN  IF taken.matched \/ ~e.opt THEN taken
                ELSE MatchFrom(pat, s, e.end + 1, pos, st, caps)
      [] e.k = "close" ->
            MatchFrom(pat, s, i + 1, pos, st,
                      [caps EXCEPT ![e.g] = Some(SubSeq(s, st[e.g] + 1, pos))])

\* re.match(pattern, string): a prefix match; .groups has one entry per capture
\* group, None for a group that did not take part.
re_match(pat, s) ==
    MatchFrom(pat, s, 1, 0, [g \in 1..NGroups(pat) |-> 0], [g \in 1..NGroups(pat) |-> None])

\* match_any_pattern(trackpath, patterns)
match_any_pattern(trackpath, patterns) ==
    \E i \in 1..Len(patterns) : re_match(patterns[i], trackpath.path).matched

-----------------------------------------------------------------------------
(* Sort keys *)

\* The members of a key tuple: an int (a pattern's index), a str (a capture)
\* or None (a capture group that did not take part).
KInt(n) == [ty |-> "int",  n |-> n, s |-> <<>>]
KStr(s) == [ty |-> "str",  n |-> 0, s |-> s]
KNone   == [ty |-> "none", n |-> 0, s |-> <<>>]

\* match_obj.groups() as a key tuple
GroupsTuple(groups) ==
    [g \in 1..Len(groups) |-> IF groups[g] = None THEN KNone ELSE KStr(groups[g][1])]

\* The first pattern of the group that matches, 0 when none does
FirstMatching(str, pattern_group) ==
    LET hit == {i \in 1..Len(pattern_group) : re_match(pattern_group[i], str).matched}
    IN  IF hit = {} THEN 0 ELSE CHOOSE i \in hit : \A j \in hit : i <= j

\* One pass of multikey_sort's outer loop: the tuple a pattern group appends.
\* The patterns and the strings of the model spell their letters in one case,
\* so re.IGNORECASE matches what a case-sensitive match does.
GroupKey(str, pattern_group) ==
    LET i == FirstMatching(str, pattern_group) IN
    IF i = 0 THEN <<KInt(Len(pattern_group))>>
    ELSE LET groups == re_match(pattern_group[i], str).groups
         IN  IF Len(groups) > 0 THEN GroupsTuple(groups)
             ELSE <<KInt(i - 1)>>

\* multikey_sort without the early return for no patterns
multikey_sort_NoEarlyReturn(str, patterns) ==
    [g \in 1..Len(patterns) |-> GroupKey(str, patterns[g])]

multikey_sort(str, patterns) ==
    IF Len(patterns) = 0 THEN << <<KStr(str)>> >>
    ELSE [g \in 1..Len(patterns) |-> GroupKey(str, patterns[g])]

\* Python's ordering of two objects of a key tuple: "lt", "eq", "gt", or "err"
\* for the TypeError of an ordering between int, str and None.
ObjCmp(a, b) ==
    IF a = b THEN "eq"
    ELSE IF a.ty # b.ty \/ a.ty = "none" THEN "err"
    ELSE IF a.ty = "int" THEN (IF a.n < b.n THEN "lt" ELSE "gt")
    ELSE IF StrLess(a.s, b.s) THEN "lt" ELSE "gt"

\* Python's ordering of two tuples: the first members that differ (by ==)
\* decide; when none differ the shorter tuple is the smaller.
TupleCmp(a, b) ==
    LET m == IF Len(a) < Len(b) THEN Len(a) ELSE Len(b)
        diff == {i \in 1..m : a[i] # b[i]}
    IN  IF diff = {}
        THEN (IF Len(a) < Len(b) THEN "lt" ELSE IF Len(a) > Len(b) THEN "gt" ELSE "eq")
        ELSE ObjCmp(a[CHOOSE i \in diff : \A j \in diff : i <= j],
                    b[CHOOSE i \in diff : \A j \in diff : i <= j])

\* Python's ordering of two keys (lists of tuples), the same rule one level up
KeyCmp(a, b) ==
    LET m == IF Len(a) < Len(b) THEN Len(a) ELSE Len(b)
        diff == {i \in 1..m : a[i] # b[i]}
    IN  IF diff = {}
        THEN (IF Len(a) < Len(b) THEN "lt" ELSE IF Len(a) > Len(b) THEN "gt" ELSE "eq")
        ELSE TupleCmp(a[CHOOSE i \in diff : \A j \in diff : i <= j],
                      b[CHOOSE i \in diff : \A j \in diff : i <= j])

-----------------------------------------------------------------------------
(* sorted(): CPython's list sort on a list shorter than 64, which is one run   *)
(* found by count_run and extended by binary insertion.  It works on the keys *)
(* and returns the permutation, or fails when a comparison raises TypeError.  *)

SortFailed == [ok |-> FALSE, perm |-> <<>>]

\* count_run: the length of the run that starts the list, and whether it descends
RECURSIVE RunExtend(_, _, _)
RunExtend(keys, i, desc) ==
    IF i > Len(keys) THEN [ok |-> TRUE, n |-> Len(keys), desc |-> desc]
    ELSE LET c == KeyCmp(keys[i], keys[i - 1]) IN
         IF c = "err" THEN [ok |-> FALSE, n |-> 0, desc |-> desc]
         ELSE IF (c = "lt") = desc THEN RunExtend(keys, i + 1, desc)
         ELSE [ok |-> TRUE, n |-> i - 1, desc |-> desc]

CountRun(keys) ==
    IF Len(keys) < 2 THEN [ok |-> TRUE, n |-> Len(keys), desc |-> FALSE]
    ELSE LET c == KeyCmp(keys[2], keys[1]) IN
         IF c = "err" THEN [ok |-> FALSE, n |-> 0, desc |-> FALSE]
         ELSE RunExtend(keys, 3, c = "lt")

\* binarysort's search for the pivot's place among perm[l..r-1]; 0 on TypeError
RECURSIVE BinSearch(_, _, _, _, _)
BinSearch(keys, perm, pivot, l, r) ==
    IF l >= r THEN l
    ELSE LET p == l + ((r - l) \div 2)
             c == KeyCmp(keys[pivot], keys[perm[p]])
         IN  IF c = "err" THEN 0
             ELSE IF c = "lt" THEN BinSearch(keys, perm, pivot, l, p)
             ELSE BinSearch(keys, perm, pivot, p + 1, r)

RECURSIVE BinarySort(_, _, _)
BinarySort(keys, perm, start) ==
    IF start > Len(perm) THEN [ok |-> TRUE, perm |-> perm]
    ELSE LET l == BinSearch(keys, perm, perm[start], 1, start) IN
         IF l = 0 THEN SortFailed
         ELSE BinarySort(keys,
                         SubSeq(perm, 1, l - 1) \o <<perm[start]>> \o
                         SubSeq(perm, l, start - 1) \o SubSeq(perm, start + 1, Len(perm)),
                         start + 1)

ListSort(keys) ==
    LET run == CountRun(keys) IN
    IF ~run.ok THEN SortFailed
    ELSE BinarySort(keys,
                    [i \in 1..Len(keys) |->
                        IF run.desc /\ i <= run.n THEN run.n + 1 - i ELSE i],
                    run.n + 1)

\* The key of sorted(..., key=lambda p: p.as_posix()): one str
StrKey(s) == << <<KStr(s)>> >>

-----------------------------------------------------------------------------
(* Tracks *)

\* Track(path, index) and RNABigWig(path, index, reverse_strand)
Track(path) ==
    [cls |-> "Track", path |-> path, index |-> None, reverse_strand |-> None]
RNABigWig(path) ==
    [cls |-> "RNABigWig", path |-> path, index |-> None, reverse_strand |-> None]

\* sort_paths: the keys, the check of every key against the first one group by
\* group (exit(1) on a TypeError), then sorted() by the keys.
SortKeys(tps, patterns) == [i \in 1..Len(tps) |-> multikey_sort(tps[i].path, patterns)]

\* CheckFails with the loop over the candidates one short
CheckFails_SkipsLast(keys, patterns) ==
    \E i_pattern \in 1..Len(patterns) : \E i_trackpath \in 1..(Len(keys) - 1) :
        TupleCmp(keys[1][i_pattern], keys[i_trackpath][i_pattern]) = "err"

CheckFails(keys, patterns) ==
    \E i_pattern \in 1..Len(patterns) : \E i_trackpath \in 1..Len(keys) :
        TupleCmp(keys[1][i_pattern], keys[i_trackpath][i_pattern]) = "err"

sort_paths(tps, patterns) ==
    LET keys == SortKeys(tps, patterns) IN
    IF CheckFails(keys, patterns) THEN [err |-> "SortKeyConflict", out |-> <<>>]
    ELSE LET r == ListSort(keys) IN
         IF ~r.ok THEN [err |-> "TypeError", out |-> <<>>]
         ELSE [err |-> "none", out |-> [i \in 1..Len(tps) |-> tps[r.perm[i]]]]

\* group_tracks_with_indexes: paths[0] of an empty list raises IndexError.
RECURSIVE IndexLoop(_, _, _)
IndexLoop(ps, k, acc) ==
    IF k > Len(ps) THEN acc
    ELSE IF EndsWith(PathName(ps[k]), ".tbi") /\ ps[k - 1] = SubSeq(ps[k], 1, Len(ps[k]) - 1)
         THEN IndexLoop(ps, k + 1,
                        [acc EXCEPT ![Len(acc)] = [@ EXCEPT !.index = Some(ps[k])]])
         ELSE IndexLoop(ps, k + 1, Append(acc, Track(ps[k])))

group_tracks_with_indexes(ps) ==
    IF Len(ps) = 0 THEN [err |-> "IndexError", out |-> <<>>]
    ELSE LET perm   == ListSort([i \in 1..Len(ps) |-> StrKey(ps[i])]).perm
             sorted == [i \in 1..Len(ps) |-> ps[perm[i]]]
         IN  [err |-> "none", out |-> IndexLoop(sorted, 2, <<Track(sorted[1])>>)]

-----------------------------------------------------------------------------
(* group_rna_strands *)

\* The candidates for pairing: a bigWig whose name holds "forward" or "reverse"
IsStrandFile(t) ==
    /\ EndsWith(PathName(t.path), ".bigWig")
    /\ (Contains(PathName(t.path), "reverse") \/ Contains(PathName(t.path), "forward"))

\* The key of paths_dict: the full path without "forward" and "reverse"
PairingName(t) == Remove(Remove(t.path, "forward"), "reverse")

\* The keys of paths_dict in insertion order
RECURSIVE DictKeys(_, _)
DictKeys(cands, seen) ==
    IF cands = <<>> THEN seen
    ELSE LET n == PairingName(Head(cands)) IN
         IF \E i \in 1..Len(seen) : seen[i] = n
         THEN DictKeys(Tail(cands), seen)
         ELSE DictKeys(Tail(cands), Append(seen, n))

\* The inner loop over one path_list: out is rna_tracks so far, fwd is
\* forward_in_current_group.  The `break` ends the loop over this path_list.
RECURSIVE PairLoop(_, _, _)
PairLoop(path_list, out, fwd) ==
    IF path_list = <<>> THEN out
    ELSE LET t == Head(path_list) IN
         IF Contains(PathName(t.path), "forward")
         THEN PairLoop(Tail(path_list), Append(out, RNABigWig(t.path)), TRUE)
         ELSE IF Contains(PathName(t.path), "reverse")
         THEN IF ~fwd THEN out
              ELSE PairLoop(Tail(path_list),
                            [out EXCEPT ![Len(out)] =
                                [@ EXCEPT !.reverse_strand = Some(t.path)]],
                            fwd)
         ELSE PairLoop(Tail(path_list), out, fwd)

RECURSIVE GroupLoop(_, _, _)
GroupLoop(names, cands, out) ==
    IF names = <<>> THEN out
    ELSE LET InGroup(t) == PairingName(t) = Head(names)
         IN  GroupLoop(Tail(names), cands, PairLoop(SelectSeq(cands, InGroup), out, FALSE))

group_rna_strands(tps, patterns) ==
    LET IsRna(t)   == match_any_pattern(t, patterns)
        NotRna(t)  == ~IsRna(t)
        rna        == SelectSeq(tps, IsRna)
        perm       == ListSort([i \in 1..Len(rna) |-> StrKey(PathName(rna[i].path))]).perm
        rna_sorted == [i \in 1..Len(rna) |-> rna[perm[i]]]
        NotCand(t) == ~IsStrandFile(t)
        cands      == SelectSeq(rna_sorted, IsStrandFile)
        other      == SelectSeq(tps, NotRna) \o SelectSeq(rna_sorted, NotCand)
    IN  GroupLoop(DictKeys(cands, <<>>), cands, <<>>) \o other

-----------------------------------------------------------------------------
(* Output records: a dict is a function from its keys to values *)

VInt(n)   == [ty |-> "int",   n |-> n, s |-> <<>>, l |-> <<>>]
VStr(str) == [ty |-> "str",   n |-> 0, s |-> str,  l |-> <<>>]
VFalse    == [ty |-> "bool",  n |-> 0, s |-> <<>>, l |-> <<>>]
VHalf     == [ty |-> "float", n |-> 0, s |-> <<"0.5">>, l |-> <<>>]
VList(l)  == [ty |-> "list",  n |-> 0, s |-> <<>>, l |-> l]

EmptyDict == [k \in {} |-> VFalse]

\* dict.update
DictUpdate(d, e) ==
    [k \in DOMAIN d \cup DOMAIN e |-> IF k \in DOMAIN e THEN e[k] ELSE d[k]]

BASE_ORDER_VALUE == 10

\* BASE_TRACK_FEATURES, for the extensions the model's paths end with
BASE_TRACK_FEATURES ==
    << [extension |-> ".bed",
        features  |-> [format |-> VStr(<<"bed">>), type |-> VStr(<<"annotation">>),
                       height |-> VInt(25)]],
       [extension |-> ".bigWig",
        features  |-> [format |-> VStr(<<"bigWig">>), type |-> VStr(<<"wig">>)]] >>

BASE_OVERLAY_TRACK_FEATURES ==
    [type |-> VStr(<<"merged">>), autoscale |-> VFalse, alpha |-> VHalf, height |-> VInt(50)]

\* The loop over BASE_TRACK_FEATURES.items()
RECURSIVE ExtensionLoop(_, _, _)
ExtensionLoop(track, name, i) ==
    IF i > Len(BASE_TRACK_FEATURES) THEN track
    ELSE ExtensionLoop(IF EndsWith(name, BASE_TRACK_FEATURES[i].extension)
                       THEN DictUpdate(track, BASE_TRACK_FEATURES[i].features)
                       ELSE track,
                       name, i + 1)

\* set_base_track_features for a trackpath that is not an RNABigWig
BasePlain(trackpath, order, prefix) ==
    LET t0 == [name       |-> VStr(PathStem(trackpath.path)),
               filename   |-> VStr(PathName(trackpath.path)),
               track_path |-> VStr(trackpath.path),
               order      |-> VInt(order),
               url        |-> VStr(prefix \o trackpath.path)]
        t1 == IF trackpath.index # None
              THEN DictUpdate(t0, [indexUrl |-> VStr(prefix \o trackpath.index[1])])
              ELSE t0
    IN  ExtensionLoop(t1, PathName(trackpath.path), 1)

\* set_base_track_features: the assert fails on an RNABigWig without reverse_strand
set_base_track_features(trackpath, order, prefix) ==
    IF trackpath.cls = "RNABigWig"
    THEN IF trackpath.reverse_strand = None
         THEN [err |-> "AssertionError", track |-> EmptyDict]
         ELSE [err |-> "none",
               track |-> DictUpdate(BASE_OVERLAY_TRACK_FEATURES,
                   [name   |-> VStr(<<"Overlay ">> \o Remove(PathName(trackpath.path), "forward")),
                    type   |-> VStr(<<"merged">>),
                    tracks |-> VList(<< BasePlain(Track(trackpath.path), order, prefix),
                                        BasePlain(Track(trackpath.reverse_strand[1]), order, prefix) >>)])]
    ELSE [err |-> "none", track |-> BasePlain(trackpath, order, prefix)]

-----------------------------------------------------------------------------
(* update_track_features *)

\* track_features is an ordered mapping: a sequence of [pattern, feature] with
\* distinct patterns.  The loop `for pattern, feature in track_features.items()`
\* matches every pattern against the match_string taken before the loop.
IsStrValue(track, key) == key \in DOMAIN track /\ track[key].ty = "str"

\* RulesLoop that reads the match string again from the patched record
RECURSIVE RulesLoop_Rematch(_, _, _, _)
RulesLoop_Rematch(track, track_features, match_string, i) ==
    IF i > Len(track_features) THEN track
    ELSE LET subject == IF IsStrValue(track, "type") /\ track["type"].s = <<"merged">>
                             /\ IsStrValue(track, "name")
                        THEN track["name"].s
                        ELSE IF IsStrValue(track, "track_path")
                        THEN track["track_path"].s
                        ELSE match_string
         IN  RulesLoop_Rematch(IF re_match(track_features[i].pattern, subject).matched
                               THEN DictUpdate(track, track_features[i].feature)
                               ELSE track,
                               track_features, match_string, i + 1)

RECURSIVE RulesLoop(_, _, _, _)
RulesLoop(track, track_features, match_string, i) ==
    IF i > Len(track_features) THEN track
    ELSE RulesLoop(IF re_match(track_features[i].pattern, match_string).matched
                   THEN DictUpdate(track, track_features[i].feature)
                   ELSE track,
                   track_features, match_string, i + 1)

\* line 420 with the updated children added to the list instead of replacing it
SetChildren_Extend(track, kids) ==
    DictUpdate(track, [tracks |-> VList(track["tracks"].l \o kids)])

\* line 420: track["tracks"] = [the updated children]
SetChildren(track, kids) ==
    DictUpdate(track, [tracks |-> VList(kids)])

RECURSIVE update_track_features(_, _)
update_track_features(track, track_features) ==
    IF "type" \in DOMAIN track /\ track["type"] = VStr(<<"merged">>)
    THEN IF ~IsStrValue(track, "name") THEN [err |-> "AssertionError", track |-> track]
         ELSE IF ~("tracks" \in DOMAIN track /\ track["tracks"].ty = "list")
         THEN [err |-> "AssertionError", track |-> track]
         ELSE LET old  == track["tracks"].l
                  kids == [i \in 1..Len(old) |-> update_track_features(old[i], track_features)]
              IN  IF \E i \in 1..Len(kids) : kids[i].err # "none"
                  THEN [err |-> "AssertionError", track |-> track]
                  ELSE [err |-> "none",
                        track |-> RulesLoop(
                            SetChildren(track, [i \in 1..Len(kids) |-> kids[i].track]),
                            track_features, track["name"].s, 1)]
    ELSE IF ~IsStrValue(track, "track_path") THEN [err |-> "AssertionError", track |-> track]
         ELSE [err |-> "none",
               track |-> RulesLoop(track, track_features, track["track_path"].s, 1)]

-----------------------------------------------------------------------------
(* add_to_template and main *)

\* add_to_template: exit(1) when the template has no "tracks"; the model's
\* template has an empty "tracks" list when it has one.
\* add_to_template that goes on after the message about the missing section
add_to_template_NoExit(has_tracks, records) ==
    [err |-> "none", out |-> records]

add_to_template(has_tracks, records) ==
    IF ~has_tracks THEN [err |-> "TemplateError", out |-> <<>>]
    ELSE [err |-> "none", out |-> records]

\* args.url, "http://localhost:8001/" unless given
UrlPrefix == <<"http://localhost:8001/">>

\* main, lines 484-490: the defaults, and every filetype turned into ".*ft$"
OrMatchAll(patterns) == IF Len(patterns) = 0 THEN << <<Star>> >> ELSE patterns

NormaliseFiletype(ft) ==
    LET a == IF Len(ft) > 0 /\ ft[1].k = "star" THEN ft
             ELSE <<Star>> \o [i \in 1..Len(ft) |->
                                  IF ft[i].k = "open" THEN [ft[i] EXCEPT !.end = @ + 1]
                                  ELSE ft[i]]
    IN  IF a[Len(a)].k = "eos" THEN a ELSE Append(a, Eos)

\* main, lines 515-525: the three filters
FilterTracks(tps, include, rna, filetypes, exclude) ==
    LET ft == [i \in 1..Len(OrMatchAll(filetypes)) |-> NormaliseFiletype(OrMatchAll(filetypes)[i])]
        Included(t) == match_any_pattern(t, OrMatchAll(include) \o rna)
        Allowed(t)  == match_any_pattern(t, ft)
        Kept(t)     == ~match_any_pattern(t, exclude)
    IN  SelectSeq(SelectSeq(SelectSeq(tps, Included), Allowed), Kept)

\* main, line 541: the base features of every trackpath, order = i + 10
BaseRecords(tps) ==
    [i \in 1..Len(tps) |-> set_base_track_features(tps[i], (i - 1) + BASE_ORDER_VALUE, UrlPrefix)]

\* main, line 544: one pass of the loop over the styles
UpdateRecords(records, track_features) ==
    [i \in 1..Len(records) |-> update_track_features(records[i], track_features)]

AnyErr(results) == \E i \in 1..Len(results) : results[i].err # "none"

\* An exception or exit(1) ends the run.
Abort(e) == pc' = "aborted" /\ err' = e

Config == <<include_patterns, exclude_patterns, filetypes_allowed, rna_track_patterns,
            overlay_rna_strands, sort_patterns, styles, template_has_tracks>>

\* line 511
GroupIndexes ==
    /\ pc = "group_indexes"
    /\ LET r == group_tracks_with_indexes(paths) IN
       IF r.err # "none"
       THEN Abort(r.err) /\ UNCHANGED trackpaths
       ELSE pc' = "filter" /\ trackpaths' = r.out /\ UNCHANGED err
    /\ prev' = paths
    /\ UNCHANGED <<paths, Config, tracks, style_i, json_session, output>>

\* lines 515-525
Filter ==
    /\ pc = "filter"
    /\ trackpaths' = FilterTracks(trackpaths, include_patterns, rna_track_patterns,
                                  filetypes_allowed, exclude_patterns)
    /\ pc' = "group_strands"
    /\ prev' = trackpaths
    /\ UNCHANGED <<err, paths, Config, tracks, style_i, json_session, output>>

\* lines 529-530
GroupStrands ==
    /\ pc = "group_strands"
    /\ trackpaths' = IF overlay_rna_strands
                     THEN group_rna_strands(trackpaths, rna_track_patterns)
                     ELSE trackpaths
    /\ pc' = "sort"
    /\ prev' = trackpaths
    /\ UNCHANGED <<err, paths, Config, tracks, style_i, json_session, output>>

\* line 534
SortPaths ==
    /\ pc = "sort"
    /\ LET r == sort_paths(trackpaths, sort_patterns) IN
       IF r.err # "none"
       THEN Abort(r.err) /\ UNCHANGED trackpaths
       ELSE pc' = "base" /\ trackpaths' = r.out /\ UNCHANGED err
    /\ prev' = trackpaths
    /\ UNCHANGED <<paths, Config, tracks, style_i, json_session, output>>

\* line 541
BaseFeatures ==
    /\ pc = "base"
    /\ LET r == BaseRecords(trackpaths) IN
       IF AnyErr(r)
       THEN Abort("AssertionError") /\ UNCHANGED tracks
       ELSE pc' = "features" /\ tracks' = [i \in 1..Len(r) |-> r[i].track] /\ UNCHANGED err
    /\ prev' = trackpaths
    /\ UNCHANGED <<paths, Config, trackpaths, style_i, json_session, output>>

\* lines 542-544, one style
UpdateFeatures ==
    /\ pc = "features"
    /\ style_i < Len(styles)
    /\ LET r == UpdateRecords(tracks, styles[style_i + 1]) IN
       IF AnyErr(r)
       THEN Abort("AssertionError") /\ UNCHANGED tracks
       ELSE tracks' = [i \in 1..Len(r) |-> r[i].track] /\ UNCHANGED <<pc, err>>
    /\ style_i' = style_i + 1
    /\ prev' = tracks
    /\ UNCHANGED <<paths, Config, trackpaths, json_session, output>>

\* line 549
AddToTemplate ==
    /\ pc = "features"
    /\ style_i = Len(styles)
    /\ LET r == add_to_template(template_has_tracks, tracks) IN
       IF r.err # "none"
       THEN Abort(r.err) /\ UNCHANGED json_session
       ELSE pc' = "write" /\ json_session' = <<r.out>> /\ UNCHANGED err
    /\ prev' = tracks
    /\ UNCHANGED <<paths, Config, trackpaths, tracks, style_i, output>>

\* line 550
WriteOutput ==
    /\ pc = "write"
    /\ output' = json_session
    /\ pc' = "done"
    /\ UNCHANGED <<err, paths, Config, trackpaths, tracks, style_i, json_session, prev>>

-----------------------------------------------------------------------------
(* Specifications *)

\* The lists of at most n members of S
ListsUpTo(S, n) == UNION {[1..k -> S] : k \in 0..n}

DefaultFilters ==
    /\ include_patterns = <<>>
    /\ exclude_patterns = <<>>
    /\ filetypes_allowed = <<>>

Fresh ==
    /\ err = "none"
    /\ tracks = <<>>
    /\ style_i = 0
    /\ json_session = <<>>
    /\ prev = <<>>
    /\ output = <<>>

\* group_tracks_with_indexes on its own: any list of these paths
MaxIndexPaths == 3

IndexPaths ==
    { <<"x">>, <<"x", ".tbi">>, <<"x", ".tbi", ".tbi">>, <<"x", ".bed">>,
      <<"x", ".bed", ".tbi">>, <<"z">>, <<"z", ".tbi">> }

InitIndex ==
    /\ pc = "group_indexes"
    /\ paths \in ListsUpTo(IndexPaths, MaxIndexPaths)
    /\ trackpaths = <<>>
    /\ DefaultFilters
    /\ rna_track_patterns = <<>>
    /\ overlay_rna_strands = FALSE
    /\ sort_patterns = <<>>
    /\ styles = <<>>
    /\ template_has_tracks = TRUE
    /\ Fresh

NextIndex == GroupIndexes

SpecIndex == InitIndex /\ [][NextIndex]_vars

\* group_rna_strands, then the sort and the base features, as main runs them
\* with overlay_rna_strands set: any list of these tracks, all of them RNA tracks
MaxStrandTracks == 3

StrandPaths ==
    { <<"x", "forward", ".bigWig">>, <<"x", "reverse", ".bigWig">>,
      <<"z", "forward", ".bigWig">>, <<"z", "reverse", ".bigWig">>,
      <<"x", ".bigWig">>, <<"x", "forward", ".bed">> }

InitStrands ==
    /\ pc = "group_strands"
    /\ paths = <<>>
    /\ trackpaths \in ListsUpTo({Track(p) : p \in StrandPaths}, MaxStrandTracks)
    /\ DefaultFilters
    /\ rna_track_patterns = << <<Star>> >>
    /\ overlay_rna_strands = TRUE
    /\ sort_patterns = <<>>
    /\ styles = <<>>
    /\ template_has_tracks = TRUE
    /\ Fresh

NextStrands == GroupStrands \/ SortPaths \/ BaseFeatures

SpecStrands == InitStrands /\ [][NextStrands]_vars

\* group_rna_strands on its own, on any list of these RNA tracks: the names
\* reversex.bigWig and xforward.bigWig share the pairing name x.bigWig and
\* the reverse one sorts first
MaxPairingTracks == 3

PairingPaths ==
    { <<"x", "forward", ".bigWig">>, <<"x", "reverse", ".bigWig">>,
      <<"reverse", "x", ".bigWig">>,
      <<"z", "forward", ".bigWig">>, <<"z", "reverse", ".bigWig">>,
      <<"x", ".bed">> }

InitPairing ==
    /\ pc = "group_strands"
    /\ paths = <<>>
    /\ trackpaths \in ListsUpTo({Track(p) : p \in PairingPaths}, MaxPairingTracks)
    /\ DefaultFilters
    /\ rna_track_patterns = << <<Star>> >>
    /\ overlay_rna_strands = TRUE
    /\ sort_patterns = <<>>
    /\ styles = <<>>
    /\ template_has_tracks = TRUE
    /\ Fresh

NextPairing == GroupStrands

SpecPairing == InitPairing /\ [][NextPairing]_vars

\* sort_paths on its own: any list of these tracks under any list of these
\* pattern groups
MaxSortTracks == 3
MaxSortGroups == 2

SortPathUniverse == { <<"x">>, <<"z">>, <<"x", ".bed">>, <<"z", ".bed">> }

P_x          == <<Lit("x")>>                                     \* x
P_bed        == <<Star, Lit(".bed")>>                            \* .*\.bed
P_capx       == <<Open(1, 3, FALSE), Lit("x"), Close(1)>>        \* (x)
P_name       == <<Open(1, 3, FALSE), Cls({"x", "z"}), Close(1)>> \* (x|z)
P_optbed     == <<Cls({"x", "z"}),
                  Open(1, 4, TRUE), Lit(".bed"), Close(1)>>      \* (?:x|z)(\.bed)?
P_name_opt   == <<Open(1, 3, FALSE), Cls({"x", "z"}), Close(1),
                  Open(2, 6, TRUE), Lit(".bed"), Close(2)>>      \* (x|z)(\.bed)?
P_name_rest  == <<Open(1, 3, FALSE), Cls({"x", "z"}), Close(1),
                  Open(2, 6, FALSE), Star, Close(2)>>            \* (x|z)(.*)

PatternGroups ==
    { <<P_x>>, <<P_bed, P_x>>, <<P_name>>, <<P_capx>>, <<P_optbed>>, <<P_name_opt>>,
      <<P_name_rest>>, <<P_x, P_name>>, <<P_capx, P_name_rest>> }

InitSort ==
    /\ pc = "sort"
    /\ paths = <<>>
    /\ trackpaths \in ListsUpTo({Track(p) : p \in SortPathUniverse}, MaxSortTracks)
    /\ DefaultFilters
    /\ rna_track_patterns = <<>>
    /\ overlay_rna_strands = FALSE
    /\ sort_patterns \in ListsUpTo(PatternGroups, MaxSortGroups)
    /\ styles = <<>>
    /\ template_has_tracks = TRUE
    /\ Fresh

NextSort == SortPaths

SpecSort == InitSort /\ [][NextSort]_vars

\* update_track_features on its own: the records set_base_track_features
\* builds for these trackpaths, patched by one stylesheet, or by the same
\* stylesheet given twice (as the preset and as --stylesheet)
MaxFeatureTracks == 2
MaxRules == 2

FeatureTrackpaths ==
    { Track(<<"x", "/", "z", ".bed">>),
      Track(<<"x", ".bigWig">>),
      [RNABigWig(<<"x", "forward", ".bigWig">>) EXCEPT
          !.reverse_strand = Some(<<"x", "reverse", ".bigWig">>)] }

FeatureRecords ==
    { set_base_track_features(t, BASE_ORDER_VALUE, UrlPrefix).track : t \in FeatureTrackpaths }

Rules ==
    { [pattern |-> <<Lit("x"), Lit("/"), Star>>,                        \* x/.*
       feature |-> [height |-> VInt(30)]],
      [pattern |-> <<Lit("x"), Lit("/"), Lit("z"), Star>>,              \* x/z.*
       feature |-> [height |-> VInt(50)]],
      [pattern |-> <<Lit("x"), Star>>,                                  \* x.*
       feature |-> [track_path |-> VStr(<<"z">>), height |-> VInt(30)]],
      [pattern |-> <<Lit("z")>>,                                        \* z
       feature |-> [height |-> VInt(50)]],
      [pattern |-> <<Lit("Overlay "), Star>>,                           \* Overlay .*
       feature |-> [type |-> VStr(<<"wig">>)]],
      [pattern |-> <<Star, Lit(".bigWig")>>,                            \* .*\.bigWig
       feature |-> [color |-> VStr(<<"red">>), height |-> VInt(40)]],
      [pattern |-> <<Star>>,                                            \* .*
       feature |-> [name |-> VStr(<<"z">>)]] }

\* The ordered mappings of at most MaxRules rules, their patterns distinct
RuleMappings ==
    { m \in ListsUpTo(Rules, MaxRules) :
        \A i, j \in 1..Len(m) : i # j => m[i].pattern # m[j].pattern }

InitFeatures ==
    /\ pc = "features"
    /\ paths = <<>>
    /\ trackpaths = <<>>
    /\ tracks \in ListsUpTo(FeatureRecords, MaxFeatureTracks)
    /\ DefaultFilters
    /\ rna_track_patterns = <<>>
    /\ overlay_rna_strands = FALSE
    /\ sort_patterns = <<>>
    /\ \E m \in RuleMappings : styles \in {<<m>>, <<m, m>>}
    /\ template_has_tracks = TRUE
    /\ err = "none"
    /\ style_i = 0
    /\ json_session = <<>>
    /\ prev = <<>>
    /\ output = <<>>

NextFeatures == UpdateFeatures

SpecFeatures == InitFeatures /\ [][NextFeatures]_vars

\* main from its first stage: the paths found and what the stylesheets set
MaxPaths == 2

PathUniverse ==
    { <<"x", ".bed">>, <<"x", ".bed", ".tbi">>, <<"z">>,
      <<"x", "forward", ".bigWig">>, <<"x", "reverse", ".bigWig">> }

Stylesheets ==
    { << >>,
      << [pattern |-> <<Star, Lit(".bigWig")>>, feature |-> [height |-> VInt(40)]],
         [pattern |-> <<Lit("Overlay "), Star>>, feature |-> [alpha |-> VHalf]] >> }

Init ==
    /\ pc = "group_indexes"
    /\ paths \in ListsUpTo(PathUniverse, MaxPaths)
    /\ trackpaths = <<>>
    /\ include_patterns = <<>>
    /\ \/ exclude_patterns = <<>> /\ filetypes_allowed = <<>>
       \/ /\ exclude_patterns = << <<Lit("z")>> >>
          /\ filetypes_allowed = << <<Lit(".bed")>>, <<Star, Lit(".bigWig"), Eos>> >>
    /\ \/ overlay_rna_strands = FALSE /\ rna_track_patterns = <<>>
       \/ overlay_rna_strands = TRUE /\ rna_track_patterns = << <<Star, Lit(".bigWig")>> >>
    /\ sort_patterns \in { <<>>, << <<P_bed>> >>, << <<P_bed, P_name>> >> }
    /\ \E m \in Stylesheets : styles \in {<<>>, <<m>>}
    /\ template_has_tracks \in BOOLEAN
    /\ Fresh

Next ==
    \/ GroupIndexes
    \/ Filter
    \/ GroupStrands
    \/ SortPaths
    \/ BaseFeatures
    \/ UpdateFeatures
    \/ AddToTemplate
    \/ WriteOutput

Spec == Init /\ [][Next]_vars

-----------------------------------------------------------------------------
(* Claims *)

\* C1: for a non-empty list of paths group_tracks_with_indexes returns no more
\* Tracks than paths, and the index of every returned Track that has one is
\* the Track's path followed by ".tbi".
C1_IndexIsPathPlusTbi ==
    (pc = "filter" /\ Len(paths) > 0) =>
        /\ Len(trackpaths) <= Len(paths)
        /\ \A i \in 1..Len(trackpaths) :
              trackpaths[i].index # None =>
                  trackpaths[i].index[1] = trackpaths[i].path \o <<".tbi">>

\* C2: group_rna_strands returns an RNABigWig only for a forward file paired
\* with a reverse file, so every RNABigWig of its output has reverse_strand
\* set, and building the base features of its output does not fail.
C2_OverlayHasReverse ==
    (pc \in {"sort", "base", "features", "aborted"}) =>
        /\ \A i \in 1..Len(trackpaths) :
              trackpaths[i].cls = "RNABigWig" => trackpaths[i].reverse_strand # None
        /\ err # "AssertionError"

\* C5: every output record has name, order and url, the orders count up from
\* BASE_ORDER_VALUE, and an overlay record has a list of two child records.
C5_RecordsHaveNameOrderUrl ==
    (pc = "features") =>
        \A i \in 1..Len(tracks) :
            /\ {"name", "order", "url"} \subseteq DOMAIN tracks[i]
            /\ tracks[i]["order"] = VInt(BASE_ORDER_VALUE + i - 1)
            /\ ("type" \in DOMAIN tracks[i] /\ tracks[i]["type"] = VStr(<<"merged">>)) =>
                   ("tracks" \in DOMAIN tracks[i] /\ Len(tracks[i]["tracks"].l) = 2)

\* sort_paths has returned or ended the run; prev is the list it was given
Sorted == pc \in {"base", "aborted"} /\ err \in {"none", "SortKeyConflict", "TypeError"}

\* All patterns of each group have the same number of capture groups
UniformArity(patterns) ==
    \A g \in 1..Len(patterns) : \A i, j \in 1..Len(patterns[g]) :
        NGroups(patterns[g][i]) = NGroups(patterns[g][j])

MixedArity(patterns) == ~UniformArity(patterns)

\* The keys are totally ordered by Python's comparison
TotalOrder(keys) ==
    /\ \A a, b \in 1..Len(keys) : KeyCmp(keys[a], keys[b]) # "err"
    /\ \A a, b \in 1..Len(keys) :
          (KeyCmp(keys[a], keys[b]) = "lt") <=> (KeyCmp(keys[b], keys[a]) = "gt")
    /\ \A a, b \in 1..Len(keys) :
          (KeyCmp(keys[a], keys[b]) = "eq") <=> (keys[a] = keys[b])
    /\ \A a, b, c \in 1..Len(keys) :
          (KeyCmp(keys[a], keys[b]) = "lt" /\ KeyCmp(keys[b], keys[c]) \in {"lt", "eq"})
              => KeyCmp(keys[a], keys[c]) = "lt"

\* C3: with uniform arity in every group (optional capture groups and
\* candidates that match no pattern included) sort_paths reports no conflict
\* and the keys are totally ordered.
C3_UniformArityNoConflict ==
    (Sorted /\ UniformArity(sort_patterns)) =>
        /\ err = "none"
        /\ TotalOrder(SortKeys(prev, sort_patterns))

FromCapture(str, pattern_group) ==
    /\ FirstMatching(str, pattern_group) # 0
    /\ NGroups(pattern_group[FirstMatching(str, pattern_group)]) > 0

IsPermutation(a, b) ==
    /\ Len(a) = Len(b)
    /\ \A x \in {a[i] : i \in 1..Len(a)} \cup {b[i] : i \in 1..Len(b)} :
          Cardinality({i \in 1..Len(a) : a[i] = x}) = Cardinality({i \in 1..Len(b) : b[i] = x})

\* C8: without pattern groups the key is the one-member list holding the
\* string, and sort_paths orders the tracks by their path strings.
C8_EmptyPatternsLexicographic ==
    (Sorted /\ sort_patterns = <<>>) =>
        /\ err = "none"
        /\ \A i \in 1..Len(prev) :
              multikey_sort(prev[i].path, sort_patterns) = << <<KStr(prev[i].path)>> >>
        /\ IsPermutation(trackpaths, prev)
        /\ \A i \in 1..(Len(trackpaths) - 1) :
              ~StrLess(trackpaths[i + 1].path, trackpaths[i].path)

\* C8 witness: a list that was out of order has been sorted
C8_Witness ==
    /\ Sorted /\ sort_patterns = <<>> /\ err = "none"
    /\ Len(prev) >= 3
    /\ trackpaths # prev

\* C10: when the check of every key against the first passes, all keys are
\* comparable and the sort ends without a comparison failure.
C10_CheckPassedSortCompletes ==
    (Sorted /\ ~CheckFails(SortKeys(prev, sort_patterns), sort_patterns)) =>
        /\ \A a, b \in 1..Len(prev) :
              KeyCmp(SortKeys(prev, sort_patterns)[a], SortKeys(prev, sort_patterns)[b]) # "err"
        /\ err = "none"

\* update_track_features has returned; prev holds the records it was given
\* and rules the mapping it applied
Patched == pc = "features" /\ style_i >= 1 /\ err = "none"

IsOverlay(track) == "type" \in DOMAIN track /\ track["type"] = VStr(<<"merged">>)

\* The rules whose pattern matches the string and whose patch defines the key
Defining(rules, str, key) ==
    {j \in 1..Len(rules) : re_match(rules[j].pattern, str).matched
                           /\ key \in DOMAIN rules[j].feature}

Last(S) == CHOOSE j \in S : \A k \in S : k <= j

\* C6: after update_track_features on a record that is no overlay, every key
\* has the value of the last rule that matches the record's track_path as it
\* was and defines the key, and its former value when no such rule does.
C6_LastMatchingRuleWins ==
    Patched =>
        \A i \in 1..Len(prev) :
            ~IsOverlay(prev[i]) =>
                LET rules == styles[style_i]
                    path  == prev[i]["track_path"].s
                    keys  == DOMAIN prev[i] \cup
                             {k \in UNION {DOMAIN rules[j].feature : j \in 1..Len(rules)} :
                                 Defining(rules, path, k) # {}}
                IN  /\ DOMAIN tracks[i] = keys
                    /\ \A k \in keys :
                          tracks[i][k] = IF Defining(rules, path, k) = {} THEN prev[i][k]
                                         ELSE rules[Last(Defining(rules, path, k))].feature[k]

\* C6 witness: x/z.bed under the rules x/.* -> height 30, x/z.* -> height 50
C6_Witness ==
    /\ Patched
    /\ style_i = 1
    /\ Len(styles[1]) = 2
    /\ styles[1][1] = [pattern |-> <<Lit("x"), Lit("/"), Star>>, feature |-> [height |-> VInt(30)]]
    /\ styles[1][2] = [pattern |-> <<Lit("x"), Lit("/"), Lit("z"), Star>>,
                       feature |-> [height |-> VInt(50)]]
    /\ \E i \in 1..Len(prev) :
          /\ ~IsOverlay(prev[i])
          /\ prev[i]["track_path"] = VStr(<<"x", "/", "z", ".bed">>)
          /\ prev[i]["height"] = VInt(25)
          /\ tracks[i]["height"] = VInt(50)

\* C7 as claimed: applying the same rules again to the patched records
\* succeeds and changes nothing.
C7_Idempotent ==
    (style_i = 2) => (err = "none" /\ tracks = prev)

\* No patch defines a field the match subject or the overlay test is read from
NoSubjectPatch(rules) ==
    \A j \in 1..Len(rules) :
        DOMAIN rules[j].feature \cap {"track_path", "name", "type", "tracks"} = {}

\* C7 amended: when no patch defines track_path, name, type or tracks,
\* applying the same rules again succeeds and changes nothing.
C7_IdempotentWithoutSubjectPatch ==
    (style_i = 2 /\ NoSubjectPatch(styles[1])) => (err = "none" /\ tracks = prev)

\* C7 witness: rules that patched a plain record and an overlay, applied twice
C7_Witness ==
    /\ style_i = 2 /\ err = "none"
    /\ NoSubjectPatch(styles[1])
    /\ \E i \in 1..Len(tracks) :
          ~IsOverlay(tracks[i]) /\ "height" \in DOMAIN tracks[i] /\ tracks[i]["height"] = VInt(50)
    /\ \E i \in 1..Len(tracks) :
          /\ IsOverlay(tracks[i])
          /\ "height" \in DOMAIN tracks[i]["tracks"].l[1]
          /\ tracks[i]["tracks"].l[1]["height"] = VInt(40)

\* C9: the output is written only when every stage has run without a fatal
\* error; a run that met one (a sort-key conflict, a failed assertion, a
\* template without "tracks", an uncaught exception) has ended and has
\* written nothing.
C9_WriteOnlyAfterEveryStage ==
    /\ output # <<>> =>
          /\ pc = "done" /\ err = "none"
          /\ template_has_tracks
          /\ \A i \in 1..Len(trackpaths) :
                trackpaths[i].cls = "RNABigWig" => trackpaths[i].reverse_strand # None
          /\ style_i = Len(styles)
          /\ output = <<tracks>>
          /\ Len(tracks) = Len(trackpaths)
    /\ err # "none" => (pc = "aborted" /\ output = <<>> /\ ~ENABLED Next)
    /\ (pc = "features" /\ style_i = Len(styles) /\ ~template_has_tracks) => ~ENABLED WriteOutput

\* C9 witness: a run that grouped, sorted and styled its tracks, found the
\* "tracks" section of the template and wrote the session
C9_Witness ==
    /\ pc = "done" /\ err = "none" /\ output = <<tracks>>
    /\ Len(tracks) > 1 /\ style_i = Len(styles) /\ style_i > 0
    /\ template_has_tracks

\* group_rna_strands has returned; prev holds the tracks it was given
Grouped == pc = "sort" /\ overlay_rna_strands

\* The path is in the output, as a track's path or as its reverse strand
InOutput(path, out) ==
    \E k \in 1..Len(out) : out[k].path = path \/ out[k].reverse_strand = Some(path)

IsForwardFile(t) == IsStrandFile(t) /\ Contains(PathName(t.path), "forward")

\* A reverse-strand file that no forward file of its pairing group precedes
\* in the order of the file names
UnpairedReverse(t, input) ==
    /\ IsStrandFile(t)
    /\ ~Contains(PathName(t.path), "forward")
    /\ ~\E j \in 1..Len(input) :
           /\ IsForwardFile(input[j])
           /\ PairingName(input[j]) = PairingName(t)
           /\ StrLess(PathName(input[j].path), PathName(t.path))

\* C11: group_rna_strands loses nothing but the reverse files that have no
\* preceding forward file in their pairing group: every forward file of the
\* input and every other input track is in the output.
C11_OnlyUnpairedReverseDropped ==
    Grouped =>
        \A i \in 1..Len(prev) :
            /\ IsForwardFile(prev[i]) => InOutput(prev[i].path, trackpaths)
            /\ ~UnpairedReverse(prev[i], prev) => InOutput(prev[i].path, trackpaths)

====
